---- MODULE Spec2Model ----
(***************************************************************************)
(* A model of opening_hours.py.  parse_opening_hours is a state machine    *)
(* whose steps are the statements of its loops, with the caller's          *)
(* dictionary drawn from bounded families of inputs: Spec starts from      *)
(* inputs that spread events over the week, SpecDay from inputs with a     *)
(* longer list of events on one day.  SpecTime applies                     *)
(* seconds_to_hours_and_minutes and hours_and_minutes_as_string to every   *)
(* second of the day, SpecFormat applies opening_hours_to_string to short  *)
(* lists of day records.                                                   *)
(***************************************************************************)
EXTENDS Integers, Sequences, FiniteSets, TLC

VARIABLES
    orig_data,      \* the dictionary as the caller passed it (history)
    hours_data,     \* the dictionary parse_opening_hours works on (sorted in place)
    all_days,       \* the list of day records built so far
    sunday_close,   \* the Monday close kept for Sunday, or None
    day_index,      \* position of the loop over DAY_NAMES (1..7, 8 = loop over)
    hours,          \* the current day's list of (start, end) tuples
    current_start,  \* the current day's pending open value, or None
    item_index,     \* position of the loop over the current day's entries
    pc,             \* "sort", "days", "items", "check", "returned", "raised";
                    \* "convert", "render", "rendered"; "format", "formatted"
    error,          \* the RuntimeError raised, or NoError
    seconds,        \* the argument of seconds_to_hours_and_minutes, or None
    hours_and_minutes, \* the tuple seconds_to_hours_and_minutes returned
    day_data,       \* the argument of opening_hours_to_string
    record_index,   \* position of the loop over day_data
    result          \* the string built so far, a sequence of characters

\* The state of parse_opening_hours, and the state of the formatting functions.
parse_vars == <<orig_data, hours_data, all_days, sunday_close, day_index, hours,
                current_start, item_index, error>>

format_vars == <<seconds, hours_and_minutes, day_data, record_index, result>>

vars == <<parse_vars, pc, format_vars>>

\* Bounds of the model.
MaxVal == 2           \* event values are drawn from 0..MaxVal
MaxEvents == 2        \* events of a week-wide input, all days together
MaxOvernightLen == 3  \* events of the first day of an overnight input
MaxDayLen == 5        \* events of a single-day input
MaxChain == 3         \* longest chain open a1, close a2, open a2, ..., close a(k+1)
MaxRecords == 2       \* day records of an argument of opening_hours_to_string
MaxIntervals == 2     \* tuples of such a record

\* The largest value of an entry: Range(min=0, max=86399).
MaxSeconds == 86399

DAY_NAMES == <<"monday", "tuesday", "wednesday", "thursday", "friday",
               "saturday", "sunday">>

Days == {DAY_NAMES[i] : i \in 1..Len(DAY_NAMES)}

None == -1

\* Every entry of the model has a type, "open" or "close" (the schema of
\* the command line requires it).
Types == {"open", "close"}

\* Python truthiness of an optional integer: None and 0 are both false.
Truthy(x) == x # None /\ x # 0

Last(s) == s[Len(s)]

Front(s) == SubSeq(s, 1, Len(s) - 1)

Event(t, v) == [type |-> t, value |-> v]

\* The value of a record's "hours" key: None, or a list of tuples.
HoursNone == [null |-> TRUE, list |-> <<>>]

HoursList(l) == [null |-> FALSE, list |-> l]

DayRecord(day_name, l) ==
    [day |-> day_name, hours |-> IF Len(l) > 0 THEN HoursList(l) ELSE HoursNone]

\* Truth value of a record's "hours": None and the empty list are false.
HoursTruthy(h) == ~h.null /\ Len(h.list) > 0

NoError == [kind |-> "none", value |-> None, day |-> "", previous |-> ""]

\* A RuntimeError: its kind, and the value and the day its message shows
\* (None and "" where the message shows none).
Raise(kind, value, day) ==
    [kind |-> kind, value |-> value, day |-> day, previous |-> ""]

\* 'New open time "{}" in day "" before previous time "{}" closed'.format(
\* item['value'], day_name, current_start): the text has nothing between the
\* quotes after "in day", and shows the second argument, the day name, as
\* the previous time; the third argument is not shown.
RaiseOverlapping(value, day_name, cs) ==
    [kind |-> "overlapping_open", value |-> value, day |-> "", previous |-> day_name]

----------------------------------------------------------------------------
\* sorted(hour_entries, key=lambda x: x['value']): a stable sort by value.

RECURSIVE InsertByValue(_, _)
InsertByValue(s, e) ==
    IF s = <<>> THEN <<e>>
    ELSE IF Last(s).value <= e.value THEN Append(s, e)
    ELSE Append(InsertByValue(Front(s), e), Last(s))

\* The entries left in the order of the input.
Unsorted(entries) == entries

RECURSIVE SortedEntries(_)
SortedEntries(entries) ==
    IF entries = <<>> THEN <<>>
    ELSE InsertByValue(SortedEntries(Front(entries)), Last(entries))

\* A dictionary from day names to lists of entries: its keys, and the list at
\* each key (the empty list stands at a day that is no key).
Dict(keys, at) == [keys |-> keys, at |-> at]

\* A sort that builds a new dictionary of the days that have entries.
SortAllPresentOnly(data) ==
    Dict({d \in data.keys : Len(data.at[d]) > 0},
         [d \in Days |-> SortedEntries(data.at[d])])

\* A sort that leaves every list as it is.
SortAllSkipped(data) == data

\* hours_data[day] = sorted(...) for every key of the dictionary.
SortAll(data) ==
    Dict(data.keys, [d \in Days |-> IF d \in data.keys
                                    THEN SortedEntries(data.at[d])
                                    ELSE data.at[d]])

----------------------------------------------------------------------------
\* The body of the loop over a day's entries.  Each operator takes the
\* locals it reads and returns the locals as the statement leaves them.

Locals(h, cs, ad, sc, err) ==
    [hours |-> h, current_start |-> cs, all_days |-> ad, sunday_close |-> sc,
     error |-> err]

\* An open that is never joined to the tuple that ends where it starts.
OpenItemNoMerge(item, day_name, h, cs, ad, sc) ==
    IF Truthy(cs)
    THEN Locals(h, cs, ad, sc, RaiseOverlapping(item.value, day_name, cs))
    ELSE Locals(h, item.value, ad, sc, NoError)

\* A merge that drops the previous tuple and forgets its start.
OpenItemMergeKeepsValue(item, day_name, h, cs, ad, sc) ==
    IF Truthy(cs)
    THEN Locals(h, cs, ad, sc, RaiseOverlapping(item.value, day_name, cs))
    ELSE IF Len(h) > 0 /\ item.value = Last(h)[2]
         THEN Locals(Front(h), item.value, ad, sc, NoError)
         ELSE Locals(h, item.value, ad, sc, NoError)

\* item['type'] == 'open'
OpenItem(item, day_name, h, cs, ad, sc) ==
    IF Truthy(cs)
    THEN Locals(h, cs, ad, sc, RaiseOverlapping(item.value, day_name, cs))
    ELSE IF Len(h) > 0 /\ item.value = Last(h)[2]
         THEN Locals(Front(h), Last(h)[1], ad, sc, NoError)
         ELSE Locals(h, item.value, ad, sc, NoError)

\* A rewrite of the first tuple of the previous day.
ClosePreviousDayFirst(ad, value) ==
    LET prev == Last(ad)
        l == prev.hours.list
        fixed == [l EXCEPT ![1] = <<l[1][1], value>>]
    IN  [ad EXCEPT ![Len(ad)] = [prev EXCEPT !.hours = HoursList(fixed)]]

\* all_days[-1]['hours'][-1] = (all_days[-1]['hours'][-1][0], item['value'])
ClosePreviousDay(ad, value) ==
    LET prev == Last(ad)
        l == prev.hours.list
        fixed == [l EXCEPT ![Len(l)] = <<l[Len(l)][1], value>>]
    IN  [ad EXCEPT ![Len(ad)] = [prev EXCEPT !.hours = HoursList(fixed)]]

\* A close that appends the tuple the other way round.
CloseItemSwapped(item, day_name, h, cs, ad, sc) ==
    IF cs = None /\ Len(h) = 0
    THEN IF Len(ad) > 0 /\ HoursTruthy(Last(ad).hours)
         THEN Locals(h, cs, ClosePreviousDay(ad, item.value), sc, NoError)
         ELSE IF day_name = "monday"
              THEN Locals(h, cs, ad, item.value, NoError)
              ELSE Locals(h, cs, ad, sc,
                          Raise("invalid_close", item.value, day_name))
    ELSE IF cs = None
         THEN Locals(h, cs, ad, sc,
                     Raise("close_without_open", item.value, day_name))
         ELSE Locals(Append(h, <<item.value, cs>>), None, ad, sc, NoError)

\* A close that keeps a leading close of any day for Sunday.
CloseItemKeepsAnyDay(item, day_name, h, cs, ad, sc) ==
    IF cs = None /\ Len(h) = 0
    THEN IF Len(ad) > 0 /\ HoursTruthy(Last(ad).hours)
         THEN Locals(h, cs, ClosePreviousDay(ad, item.value), sc, NoError)
         ELSE Locals(h, cs, ad, item.value, NoError)
    ELSE IF cs = None
         THEN Locals(h, cs, ad, sc,
                     Raise("close_without_open", item.value, day_name))
         ELSE Locals(Append(h, <<cs, item.value>>), None, ad, sc, NoError)

\* A close that tests the pending open by truth value instead of "is None".
CloseItemTruthy(item, day_name, h, cs, ad, sc) ==
    IF ~Truthy(cs) /\ Len(h) = 0
    THEN IF Len(ad) > 0 /\ HoursTruthy(Last(ad).hours)
         THEN Locals(h, cs, ClosePreviousDay(ad, item.value), sc, NoError)
         ELSE IF day_name = "monday"
              THEN Locals(h, cs, ad, item.value, NoError)
              ELSE Locals(h, cs, ad, sc,
                          Raise("invalid_close", item.value, day_name))
    ELSE IF ~Truthy(cs)
         THEN Locals(h, cs, ad, sc,
                     Raise("close_without_open", item.value, day_name))
         ELSE Locals(Append(h, <<cs, item.value>>), None, ad, sc, NoError)

\* item['type'] == 'close'
CloseItem(item, day_name, h, cs, ad, sc) ==
    IF cs = None /\ Len(h) = 0
    THEN IF Len(ad) > 0 /\ HoursTruthy(Last(ad).hours)
         THEN Locals(h, cs, ClosePreviousDay(ad, item.value), sc, NoError)
         ELSE IF day_name = "monday"
              THEN Locals(h, cs, ad, item.value, NoError)
              ELSE Locals(h, cs, ad, sc,
                          Raise("invalid_close", item.value, day_name))
    ELSE IF cs = None
         THEN Locals(h, cs, ad, sc,
                     Raise("close_without_open", item.value, day_name))
         ELSE Locals(Append(h, <<cs, item.value>>), None, ad, sc, NoError)

HandleItem(item, day_name, h, cs, ad, sc) ==
    IF item.type = "open" THEN OpenItem(item, day_name, h, cs, ad, sc)
    ELSE IF item.type = "close" THEN CloseItem(item, day_name, h, cs, ad, sc)
    ELSE Locals(h, cs, ad, sc, NoError)

\* After a day's entries: the pending open, the Sunday close, the record.
\* 'Lingering sunday close time detected' names sunday and shows no value.
FinishDay(day_name, h, cs, ad, sc) ==
    IF cs # None
    THEN LET end == IF day_name = "sunday" /\ Truthy(sc) THEN sc ELSE None
             done == Append(h, <<cs, end>>)
         IN  Locals(done, cs, Append(ad, DayRecord(day_name, done)), sc, NoError)
    ELSE IF day_name = "sunday" /\ Truthy(sc)
         THEN Locals(h, cs, ad, sc, Raise("lingering_close", None, "sunday"))
         ELSE Locals(h, cs, Append(ad, DayRecord(day_name, h)), sc, NoError)

\* A missing day that gets no record.
MissingDaySkipped(day_name, ad) == ad

\* Add missing days to the result.
MissingDay(day_name, ad) == Append(ad, DayRecord(day_name, <<>>))

\* day_name not in hours_data or not len(hours_data[day_name])
IsMissing(data, day_name) == day_name \notin data.keys \/ Len(data.at[day_name]) = 0

\* A last loop that looks at the first tuple of each record.
LingeringDaysFirstTuple(ad) ==
    {i \in 1..Len(ad) : HoursTruthy(ad[i].hours) /\ ad[i].hours.list[1][2] = None}

\* The last loop: the first record whose last tuple has no end raises.
LingeringDays(ad) ==
    {i \in 1..Len(ad) : HoursTruthy(ad[i].hours) /\ Last(ad[i].hours.list)[2] = None}

Min(S) == CHOOSE x \in S : \A y \in S : x <= y

LingeringCheck(ad) ==
    IF LingeringDays(ad) # {}
    THEN LET rec == ad[Min(LingeringDays(ad))]
         IN  Raise("lingering_open", Last(rec.hours.list)[1], rec.day)
    ELSE NoError

----------------------------------------------------------------------------
\* The whole call as a function of the caller's dictionary.

\* for item in hours_data[day_name], from the j-th entry on, until an error.
RECURSIVE RunItems(_, _, _, _)
RunItems(items, j, day_name, loc) ==
    IF j > Len(items) \/ loc.error # NoError THEN loc
    ELSE RunItems(items, j + 1, day_name,
                  HandleItem(items[j], day_name, loc.hours, loc.current_start,
                             loc.all_days, loc.sunday_close))

\* The body of the loop over DAY_NAMES.
RunDay(data, day_name, ad, sc) ==
    IF IsMissing(data, day_name)
    THEN Locals(<<>>, None, MissingDay(day_name, ad), sc, NoError)
    ELSE LET r == RunItems(data.at[day_name], 1, day_name,
                           Locals(<<>>, None, ad, sc, NoError))
         IN  IF r.error # NoError THEN r
             ELSE FinishDay(day_name, r.hours, r.current_start, r.all_days,
                            r.sunday_close)

\* for day_name in DAY_NAMES, from the i-th name on, until an error.
RECURSIVE RunDays(_, _, _)
RunDays(data, i, loc) ==
    IF i > Len(DAY_NAMES) \/ loc.error # NoError THEN loc
    ELSE RunDays(data, i + 1, RunDay(data, DAY_NAMES[i], loc.all_days, loc.sunday_close))

\* The list returned, or the error raised.
parse_opening_hours(data) ==
    LET r == RunDays(SortAll(data), 1, Locals(<<>>, None, <<>>, None, NoError))
        err == IF r.error # NoError THEN r.error ELSE LingeringCheck(r.all_days)
    IN  [all_days |-> IF err = NoError THEN r.all_days ELSE <<>>, error |-> err]

----------------------------------------------------------------------------
\* The inputs.

Values == 0..MaxVal

Events == {Event(t, v) : t \in Types, v \in Values}

SeqsUpTo(S, n) == UNION {[1..k -> S] : k \in 0..n}

\* Lists of events ascending by value, events of equal value in any order
\* (the lists as the sort leaves them).
Ascends(l) == \A j \in 1..(Len(l) - 1) : l[j].value <= l[j + 1].value

OvernightLists == {l \in SeqsUpTo(Events, MaxOvernightLen) : Ascends(l)} \ {<<>>}

DayLists == {l \in SeqsUpTo(Events, MaxDayLen) : Ascends(l)} \ {<<>>}

\* The dictionary with list l at day d, list n at day e (d # e), and the
\* days with a list that is not empty, and those of keys, as keys.
TwoDays(d, l, e, n, keys) ==
    Dict(keys \cup (IF l = <<>> THEN {} ELSE {d}) \cup (IF n = <<>> THEN {} ELSE {e}),
         [x \in Days |-> IF x = d THEN l ELSE IF x = e THEN n ELSE <<>>])

\* The dictionary of events listed with their days.
DayEvents == {[day |-> d, ev |-> e] : d \in Days, e \in Events}

OfDay(flat, d) ==
    LET sel == SelectSeq(flat, LAMBDA x : x.day = d)
    IN  [j \in 1..Len(sel) |-> sel[j].ev]

FromFlat(flat, keys) ==
    Dict(keys \cup {flat[i].day : i \in 1..Len(flat)}, [d \in Days |-> OfDay(flat, d)])

\* The weekday after DAY_NAMES[i] (Monday after Sunday).
NextIndex(i) == IF i = Len(DAY_NAMES) THEN 1 ELSE i + 1

\* Week-wide inputs: at most MaxEvents events, each on any day, in any order;
\* the keys of the dictionary are the days that have an event.
WeekInput == \E flat \in SeqsUpTo(DayEvents, MaxEvents) : orig_data = FromFlat(flat, {})

\* Inputs with empty days: any set of days as keys with empty lists, and at
\* most one event in all.
KeyInput ==
    \E flat \in SeqsUpTo(DayEvents, 1), keys \in SUBSET Days :
        orig_data = FromFlat(flat, keys)

\* Overnight inputs: a day with at most MaxOvernightLen events ascending by
\* value, and the following weekday with nothing or with one close.
OvernightInput ==
    \E i \in 1..Len(DAY_NAMES), l \in OvernightLists,
       n \in {<<>>} \cup {<<Event("close", c)>> : c \in Values} :
        orig_data = TwoDays(DAY_NAMES[i], l, DAY_NAMES[NextIndex(i)], n, {})

\* Single-day inputs: one day with at most MaxDayLen events ascending by value.
DayInput ==
    \E d \in Days, l \in DayLists : orig_data = TwoDays(d, l, d, <<>>, {})

\* Chains: open a1, close a2, open a2, close a3, ..., open ak, close a(k+1)
\* with a1 < a2 < ... < a(k+1), each close listed before the open of equal value.
RECURSIVE Ascending(_)
Ascending(S) ==
    IF S = {} THEN <<>>
    ELSE LET m == CHOOSE x \in S : \A y \in S : y <= x
         IN  Append(Ascending(S \ {m}), m)

RECURSIVE ChainOf(_)
ChainOf(a) ==
    IF Len(a) < 2 THEN <<>>
    ELSE ChainOf(Front(a)) \o <<Event("open", a[Len(a) - 1]), Event("close", Last(a))>>

ChainValues ==
    {S \in SUBSET (0..(MaxChain + 1)) : Cardinality(S) \in 3..(MaxChain + 1)}

ChainInput ==
    \E d \in Days, S \in ChainValues :
        orig_data = TwoDays(d, ChainOf(Ascending(S)), d, <<>>, {})

----------------------------------------------------------------------------
\* The call: the locals before the first statement.
Start ==
    /\ hours_data = orig_data
    /\ all_days = <<>>
    /\ sunday_close = None
    /\ day_index = 1
    /\ hours = <<>>
    /\ current_start = None
    /\ item_index = 1
    /\ pc = "sort"
    /\ error = NoError

\* The formatting functions are not called.
NoFormat ==
    /\ seconds = None
    /\ hours_and_minutes = <<>>
    /\ day_data = <<>>
    /\ record_index = 1
    /\ result = <<>>

\* The week: events in any order spread over the days, days with empty lists,
\* and days that close in the next day.
Init == (WeekInput \/ KeyInput \/ OvernightInput) /\ Start /\ NoFormat

\* One day: longer lists of events on a single day.
InitDay == (DayInput \/ ChainInput) /\ Start /\ NoFormat

\* First sort the time entries inside every day.
SortEntries ==
    /\ pc = "sort"
    /\ hours_data' = SortAll(hours_data)
    /\ all_days' = <<>>
    /\ sunday_close' = None
    /\ day_index' = 1
    /\ pc' = "days"
    /\ UNCHANGED <<orig_data, hours, current_start, item_index, error>>
    /\ UNCHANGED format_vars

\* for day_name in DAY_NAMES: a day that is not in the input or is empty.
AddMissingDay ==
    /\ pc = "days"
    /\ day_index <= Len(DAY_NAMES)
    /\ IsMissing(hours_data, DAY_NAMES[day_index])
    /\ all_days' = MissingDay(DAY_NAMES[day_index], all_days)
    /\ day_index' = day_index + 1
    /\ UNCHANGED <<orig_data, hours_data, sunday_close, hours, current_start,
                   item_index, pc, error>>
    /\ UNCHANGED format_vars

\* for day_name in DAY_NAMES: a day with entries.
BeginDay ==
    /\ pc = "days"
    /\ day_index <= Len(DAY_NAMES)
    /\ ~IsMissing(hours_data, DAY_NAMES[day_index])
    /\ hours' = <<>>
    /\ current_start' = None
    /\ item_index' = 1
    /\ pc' = "items"
    /\ UNCHANGED <<orig_data, hours_data, all_days, sunday_close, day_index, error>>
    /\ UNCHANGED format_vars

\* for item in hours_data[day_name]: one entry.
ProcessItem ==
    /\ pc = "items"
    /\ item_index <= Len(hours_data.at[DAY_NAMES[day_index]])
    /\ LET day_name == DAY_NAMES[day_index]
           item == hours_data.at[day_name][item_index]
           r == HandleItem(item, day_name, hours, current_start, all_days,
                           sunday_close)
       IN  /\ hours' = r.hours
           /\ current_start' = r.current_start
           /\ all_days' = r.all_days
           /\ sunday_close' = r.sunday_close
           /\ error' = r.error
           /\ pc' = IF r.error = NoError THEN "items" ELSE "raised"
           /\ item_index' = IF r.error = NoError THEN item_index + 1 ELSE item_index
    /\ UNCHANGED <<orig_data, hours_data, day_index>>
    /\ UNCHANGED format_vars

\* The statements after the loop over a day's entries.
EndDay ==
    /\ pc = "items"
    /\ item_index > Len(hours_data.at[DAY_NAMES[day_index]])
    /\ LET r == FinishDay(DAY_NAMES[day_index], hours, current_start, all_days,
                          sunday_close)
       IN  /\ hours' = r.hours
           /\ all_days' = r.all_days
           /\ error' = r.error
           /\ pc' = IF r.error = NoError THEN "days" ELSE "raised"
           /\ day_index' = IF r.error = NoError THEN day_index + 1 ELSE day_index
    /\ UNCHANGED <<orig_data, hours_data, sunday_close, current_start, item_index>>
    /\ UNCHANGED format_vars

\* The loop over DAY_NAMES is over.
EndDays ==
    /\ pc = "days"
    /\ day_index > Len(DAY_NAMES)
    /\ pc' = "check"
    /\ UNCHANGED <<orig_data, hours_data, all_days, sunday_close, day_index, hours,
                   current_start, item_index, error>>
    /\ UNCHANGED format_vars

\* for day in all_days: ... ; return all_days
CheckAndReturn ==
    /\ pc = "check"
    /\ error' = LingeringCheck(all_days)
    /\ pc' = IF error' = NoError THEN "returned" ELSE "raised"
    /\ UNCHANGED <<orig_data, hours_data, all_days, sunday_close, day_index, hours,
                   current_start, item_index>>
    /\ UNCHANGED format_vars

Next ==
    \/ SortEntries
    \/ AddMissingDay
    \/ BeginDay
    \/ ProcessItem
    \/ EndDay
    \/ EndDays
    \/ CheckAndReturn

Spec == Init /\ [][Next]_vars

SpecDay == InitDay /\ [][Next]_vars

----------------------------------------------------------------------------
\* The formatting functions.  A string is the sequence of its characters.

DigitChars == <<"0", "1", "2", "3", "4", "5", "6", "7", "8", "9">>

\* '{}'.format(n) of an integer n >= 0.
RECURSIVE Decimal(_)
Decimal(n) ==
    IF n < 10 THEN <<DigitChars[n + 1]>>
    ELSE Append(Decimal(n \div 10), DigitChars[(n % 10) + 1])

\* '{:02d}'.format(n) of an integer n >= 0.
TwoDigits(n) == IF n < 10 THEN <<"0">> \o Decimal(n) ELSE Decimal(n)

\* A conversion that rounds to the nearest minute.
RoundedToMinutes(s) ==
    LET minutes == (s + 30) \div 60
    IN  <<minutes \div 60, minutes % 60>>

\* minutes = seconds // 60; hours = minutes // 60; minutes %= 60
seconds_to_hours_and_minutes(s) ==
    LET minutes == s \div 60
    IN  <<minutes \div 60, minutes % 60>>

\* A rendering that takes 12 away from noon too.
NoonAsZero(hm) ==
    Decimal(IF hm[1] >= 12 THEN hm[1] - 12 ELSE hm[1])
        \o (IF hm[2] # 0 THEN <<":">> \o TwoDigits(hm[2]) ELSE <<>>)
        \o <<" ">> \o (IF hm[1] >= 12 THEN <<"p", "m">> ELSE <<"a", "m">>)

\* '{}{} {}'.format(hours, ':{:02d}'.format(minutes) if minutes else '', am_or_pm)
hours_and_minutes_as_string(hm) ==
    LET am_or_pm == IF hm[1] >= 12 THEN <<"p", "m">> ELSE <<"a", "m">>
        h == IF hm[1] >= 12 /\ hm[1] > 12 THEN hm[1] - 12 ELSE hm[1]
    IN  Decimal(h) \o (IF hm[2] # 0 THEN <<":">> \o TwoDigits(hm[2]) ELSE <<>>)
            \o <<" ">> \o am_or_pm

\* The characters of the day names.
Spelling ==
    [monday |-> <<"m", "o", "n", "d", "a", "y">>,
     tuesday |-> <<"t", "u", "e", "s", "d", "a", "y">>,
     wednesday |-> <<"w", "e", "d", "n", "e", "s", "d", "a", "y">>,
     thursday |-> <<"t", "h", "u", "r", "s", "d", "a", "y">>,
     friday |-> <<"f", "r", "i", "d", "a", "y">>,
     saturday |-> <<"s", "a", "t", "u", "r", "d", "a", "y">>,
     sunday |-> <<"s", "u", "n", "d", "a", "y">>]

LowerCase == <<"a", "b", "c", "d", "e", "f", "g", "h", "i", "j", "k", "l", "m",
               "n", "o", "p", "q", "r", "s", "t", "u", "v", "w", "x", "y", "z">>

UpperCase == <<"A", "B", "C", "D", "E", "F", "G", "H", "I", "J", "K", "L", "M",
               "N", "O", "P", "Q", "R", "S", "T", "U", "V", "W", "X", "Y", "Z">>

\* The character of table to at the position c has in table from, or c.
Mapped(c, from, to) ==
    IF \E i \in 1..Len(from) : from[i] = c
    THEN to[CHOOSE i \in 1..Len(from) : from[i] = c]
    ELSE c

\* str.capitalize(): the first character upper case, the others lower case.
capitalize(str) ==
    [i \in 1..Len(str) |-> IF i = 1 THEN Mapped(str[i], LowerCase, UpperCase)
                           ELSE Mapped(str[i], UpperCase, LowerCase)]

\* sep.join(strs)
RECURSIVE join(_, _)
join(sep, strs) ==
    IF Len(strs) = 0 THEN <<>>
    ELSE IF Len(strs) = 1 THEN strs[1]
    ELSE join(sep, Front(strs)) \o sep \o Last(strs)

Closed == <<"C", "l", "o", "s", "e", "d">>

\* "{} - {}".format(...) of one tuple.
FormatTuple(t) ==
    hours_and_minutes_as_string(seconds_to_hours_and_minutes(t[1]))
        \o <<" ", "-", " ">>
        \o hours_and_minutes_as_string(seconds_to_hours_and_minutes(t[2]))

\* Hours that are closed only when they are None.
OpeningHoursNoneOnly(h) ==
    IF ~h.null THEN [j \in 1..Len(h.list) |-> FormatTuple(h.list[j])]
    ELSE <<Closed>>

\* The list opening_hours of one day.
OpeningHours(h) ==
    IF HoursTruthy(h) THEN [j \in 1..Len(h.list) |-> FormatTuple(h.list[j])]
    ELSE <<Closed>>

\* "{}: {}\n".format(day['day'].capitalize(), ", ".join(opening_hours))
FormatLine(day) ==
    capitalize(Spelling[day.day]) \o <<":", " ">>
        \o join(<<",", " ">>, OpeningHours(day.hours)) \o <<"\n">>

\* parse_opening_hours is not called.
NoParse ==
    /\ orig_data = Dict({}, [d \in Days |-> <<>>])
    /\ hours_data = orig_data
    /\ all_days = <<>>
    /\ sunday_close = None
    /\ day_index = 1
    /\ hours = <<>>
    /\ current_start = None
    /\ item_index = 1
    /\ error = NoError

\* A time of the day: any number of seconds the schema allows.
InitTime ==
    /\ NoParse
    /\ seconds \in 0..MaxSeconds
    /\ hours_and_minutes = <<>>
    /\ day_data = <<>>
    /\ record_index = 1
    /\ result = <<>>
    /\ pc = "convert"

\* seconds_to_hours_and_minutes(seconds)
ConvertSeconds ==
    /\ pc = "convert"
    /\ hours_and_minutes' = seconds_to_hours_and_minutes(seconds)
    /\ pc' = "render"
    /\ UNCHANGED <<parse_vars, seconds, day_data, record_index, result>>

\* hours_and_minutes_as_string(hours_and_minutes)
RenderTime ==
    /\ pc = "render"
    /\ result' = hours_and_minutes_as_string(hours_and_minutes)
    /\ pc' = "rendered"
    /\ UNCHANGED <<parse_vars, seconds, hours_and_minutes, day_data, record_index>>

NextTime == ConvertSeconds \/ RenderTime

SpecTime == InitTime /\ [][NextTime]_vars

\* The tuples of the records: the ones of the docstrings, and one with
\* minutes that ends after midnight.
FormatTuples == {<<36000, 64800>>, <<44100, 3600>>}

FormatDays == {"monday", "sunday"}

\* Day records: hours None, an empty list, or at most MaxIntervals tuples.
FormatRecords ==
    {[day |-> d, hours |-> h] :
        d \in FormatDays,
        h \in {HoursNone} \cup {HoursList(l) : l \in SeqsUpTo(FormatTuples, MaxIntervals)}}

\* A list of at most MaxRecords day records, of any days in any order.
InitFormat ==
    /\ NoParse
    /\ seconds = None
    /\ hours_and_minutes = <<>>
    /\ day_data \in SeqsUpTo(FormatRecords, MaxRecords)
    /\ record_index = 1
    /\ result = <<>>
    /\ pc = "format"

\* for day in day_data: one record.
FormatDay ==
    /\ pc = "format"
    /\ record_index <= Len(day_data)
    /\ result' = result \o FormatLine(day_data[record_index])
    /\ record_index' = record_index + 1
    /\ UNCHANGED <<parse_vars, pc, seconds, hours_and_minutes, day_data>>

\* return result
FormatReturn ==
    /\ pc = "format"
    /\ record_index > Len(day_data)
    /\ pc' = "formatted"
    /\ UNCHANGED <<parse_vars, format_vars>>

NextFormat == FormatDay \/ FormatReturn

SpecFormat == InitFormat /\ [][NextFormat]_vars

----------------------------------------------------------------------------
\* Vocabulary of the properties.

Returned == pc = "returned"

Raised == pc = "raised"

Finished == Returned \/ Raised

\* The events of a day of the caller's input, ascending by value.
InputOf(d) == IF d \in orig_data.keys THEN SortedEntries(orig_data.at[d]) ELSE <<>>

\* The entry the loop over the current day's entries is about to handle.
AtItem == pc = "items" /\ item_index <= Len(hours_data.at[DAY_NAMES[day_index]])

CurrentItem == hours_data.at[DAY_NAMES[day_index]][item_index]

EndsWithOpen(d) == InputOf(d) # <<>> /\ Last(InputOf(d)).type = "open"

BeginsWithClose(d) == InputOf(d) # <<>> /\ InputOf(d)[1].type = "close"

ValuesOf(d, t) ==
    {orig_data.at[d][i].value :
        i \in {j \in 1..Len(orig_data.at[d]) : orig_data.at[d][j].type = t}}

\* The list of tuples of the i-th record of the result.
ListOf(i) == all_days[i].hours.list

----------------------------------------------------------------------------
\* C1: every result has exactly seven day records, for monday, tuesday,
\* wednesday, thursday, friday, saturday and sunday in that order, whatever
\* days the input holds.
C1_SevenDaysInOrder ==
    Returned =>
        /\ Len(all_days) = 7
        /\ \A i \in 1..7 : all_days[i].day = DAY_NAMES[i]

\* A result for an input that holds some of the days, one of them with an
\* empty list and another with an event.
C1_Witness ==
    /\ Returned
    /\ orig_data.keys \notin {{}, Days}
    /\ \E d \in orig_data.keys : orig_data.at[d] = <<>>
    /\ \E d \in orig_data.keys : orig_data.at[d] # <<>>

\* C2: when Sunday's sorted events end with an open at s and Monday's sorted
\* events begin with a close at c, and no other error is raised, the call
\* returns, Sunday's last tuple is (s, c) and Monday's record does not hold c
\* (Monday is None when the close is its only event).
C2_SundayWraparound ==
    (/\ Finished
     /\ EndsWithOpen("sunday")
     /\ BeginsWithClose("monday")
     /\ Raised => error.kind = "lingering_open" /\ error.day = "sunday")
    => /\ Returned
       /\ ~all_days[7].hours.null
       /\ Last(ListOf(7)) = <<Last(InputOf("sunday")).value, InputOf("monday")[1].value>>
       /\ Len(InputOf("monday")) = 1 => all_days[1].hours.null

\* C3: an open entry reached while an earlier open of the same day is still
\* pending raises the overlapping-open error.
C3_OverlappingOpen ==
    [][(AtItem /\ CurrentItem.type = "open" /\ current_start # None)
        => (pc' = "raised" /\ error'.kind = "overlapping_open")]_vars

\* C4: a close entry handled when no open of its day is pending, the previous
\* weekday's record does not end with an unclosed open, and the entry is not a
\* leading Monday close, raises an orphan-close error.
C4_OrphanClose ==
    [][(/\ AtItem
        /\ CurrentItem.type = "close"
        /\ current_start = None
        /\ ~(Len(all_days) > 0 /\ HoursTruthy(Last(all_days).hours)
                /\ Last(Last(all_days).hours.list)[2] = None)
        /\ ~(DAY_NAMES[day_index] = "monday" /\ hours = <<>>))
        => (/\ pc' = "raised"
            /\ error'.kind \in {"invalid_close", "close_without_open"})]_vars

\* C5: a Monday close kept for Sunday is never dropped: no call returns when a
\* close was kept and Sunday does not end with an unclosed open.
C5_LingeringClose ==
    Returned => ~(sunday_close # None /\ ~EndsWithOpen("sunday"))

\* The input leaves an open pending: some day's last event is an open and the
\* following weekday (Monday after Sunday) does not begin with a close.
LingeringInput ==
    \E i \in 1..Len(DAY_NAMES) :
        EndsWithOpen(DAY_NAMES[i]) /\ ~BeginsWithClose(DAY_NAMES[NextIndex(i)])

NoOpenEnds ==
    Returned => \A i \in 1..Len(all_days) : \A j \in 1..Len(ListOf(i)) :
                    ListOf(i)[j][2] # None

\* C6 as stated: every tuple of a result has an end, and an input that leaves
\* an open pending fails with the lingering-open error.
C6_Original ==
    /\ NoOpenEnds
    /\ (Finished /\ LingeringInput) => (Raised /\ error.kind = "lingering_open")

\* C6: every tuple of a result has an end; an input that leaves an open
\* pending fails, and with the lingering-open error whenever no other error
\* was raised while the days were processed.
C6_LingeringOpen ==
    /\ NoOpenEnds
    /\ (Finished /\ LingeringInput) => Raised
    /\ (Raised /\ LingeringInput /\ day_index > Len(DAY_NAMES))
            => error.kind = "lingering_open"

\* The lingering-open error for a day that has a closed tuple before its
\* pending open.
C6_Witness ==
    /\ Raised
    /\ LingeringInput
    /\ error.kind = "lingering_open"
    /\ \E i \in 1..Len(all_days) : Len(ListOf(i)) >= 2

\* C7: in every result the tuples of a day ascend by start, each end is at
\* most the next start, and no end equals the next start.
C7_OrderedDisjoint ==
    Returned =>
        \A i \in 1..Len(all_days) : \A j \in 1..(Len(ListOf(i)) - 1) :
            /\ ListOf(i)[j][1] < ListOf(i)[j + 1][1]
            /\ ListOf(i)[j][2] <= ListOf(i)[j + 1][1]
            /\ ListOf(i)[j][2] # ListOf(i)[j + 1][1]

\* A result with two tuples on a day, the first of them not empty.
C7_Witness ==
    /\ Returned
    /\ \E i \in 1..Len(all_days) :
        /\ Len(ListOf(i)) >= 2
        /\ ListOf(i)[1][1] < ListOf(i)[1][2]

\* C8 as stated: a tuple whose end is less than its start is the last tuple of
\* Sunday, its end a Monday close.
C8_Original ==
    Returned =>
        \A i \in 1..Len(all_days) : \A j \in 1..Len(ListOf(i)) :
            ListOf(i)[j][2] < ListOf(i)[j][1] =>
                /\ i = Len(DAY_NAMES)
                /\ j = Len(ListOf(i))
                /\ ListOf(i)[j][2] \in ValuesOf("monday", "close")

\* C8: a tuple whose end is less than its start is the last tuple of its day,
\* its end the value of a close of the following weekday (Monday for Sunday).
C8_Wraparound ==
    Returned =>
        \A i \in 1..Len(all_days) : \A j \in 1..Len(ListOf(i)) :
            ListOf(i)[j][2] < ListOf(i)[j][1] =>
                /\ j = Len(ListOf(i))
                /\ ListOf(i)[j][2] \in ValuesOf(DAY_NAMES[NextIndex(i)], "close")

\* A result where a day before Sunday ends with a tuple closed in the next
\* day before its start, after an earlier tuple.
C8_Witness ==
    /\ Returned
    /\ \E i \in 1..(Len(all_days) - 1) :
        /\ Len(ListOf(i)) >= 2
        /\ Last(ListOf(i))[2] < Last(ListOf(i))[1]

\* The input is one open o and one close c, o < c, on one day.
SinglePair(d) ==
    /\ \A e \in Days \ {d} : orig_data.at[e] = <<>>
    /\ Len(orig_data.at[d]) = 2
    /\ InputOf(d)[1].type = "open"
    /\ InputOf(d)[2].type = "close"
    /\ InputOf(d)[1].value < InputOf(d)[2].value

\* C9: one open o and one close c, o < c, on day d alone never fail, and the
\* result gives d the one tuple (o, c) and None to the six other days.
C9_SinglePair ==
    Finished =>
        \A i \in 1..Len(DAY_NAMES) :
            SinglePair(DAY_NAMES[i]) =>
                /\ Returned
                /\ all_days[i].hours =
                      HoursList(<<<<InputOf(DAY_NAMES[i])[1].value,
                                    InputOf(DAY_NAMES[i])[2].value>>>>)
                /\ \A k \in 1..Len(all_days) : k # i => all_days[k].hours = HoursNone

\* The result for a pair that opens at 0, with the close listed first.
C9_Witness ==
    /\ Returned
    /\ \E d \in Days :
        /\ SinglePair(d)
        /\ InputOf(d)[1].value = 0
        /\ orig_data.at[d][1].type = "close"

\* The list is a chain open a1, close a2, open a2, ..., close a(k+1), k >= 2.
IsChain(l) ==
    /\ Len(l) >= 4
    /\ Len(l) % 2 = 0
    /\ \A j \in 1..Len(l) : l[j].type = (IF j % 2 = 1 THEN "open" ELSE "close")
    /\ \A j \in 1..(Len(l) - 1) :
        IF j % 2 = 1 THEN l[j].value < l[j + 1].value ELSE l[j].value = l[j + 1].value

ChainOn(d) ==
    /\ \A e \in Days \ {d} : orig_data.at[e] = <<>>
    /\ IsChain(orig_data.at[d])

\* C10: a chain on one day never fails, and its result gives the day the
\* single tuple (a1, a(k+1)).
C10_ChainMerged ==
    Finished =>
        \A i \in 1..Len(DAY_NAMES) :
            ChainOn(DAY_NAMES[i]) =>
                /\ Returned
                /\ all_days[i].hours =
                      HoursList(<<<<orig_data.at[DAY_NAMES[i]][1].value,
                                    Last(orig_data.at[DAY_NAMES[i]]).value>>>>)

\* The result for a chain of three pairs that starts at 0.
C10_Witness ==
    /\ Returned
    /\ \E d \in Days :
        /\ ChainOn(d)
        /\ Len(orig_data.at[d]) = 6
        /\ orig_data.at[d][1].value = 0

----------------------------------------------------------------------------
\* The hour and the minute of the time of day seconds.
HourOf(t) == t \div 3600

MinuteOf(t) == (t \div 60) % 60

\* The 12-hour text of hour h and minute m: the hour as it is up to 12 and
\* less 12 after, nothing or ':' and two digits, a space, 'am' or 'pm'.
TwelveHourText(h, m) ==
    LET shown == IF h <= 12 THEN h ELSE h - 12
        number == IF shown < 10 THEN <<DigitChars[shown + 1]>>
                  ELSE <<"1", DigitChars[shown - 9]>>
        suffix == IF m = 0 THEN <<>>
                  ELSE <<":", DigitChars[(m \div 10) + 1], DigitChars[(m % 10) + 1]>>
    IN  number \o suffix \o <<" ">> \o (IF h < 12 THEN <<"a", "m">> ELSE <<"p", "m">>)

\* The renderings of all pairs of an hour and a minute.
Renderings ==
    [p \in (0..23) \X (0..59) |-> hours_and_minutes_as_string(p)]

\* C11: for every seconds value in 0..86399 the rendering of its hour and
\* minute is the hour (less 12 after 12, so 0 shows 0 and 12 shows 12), the
\* suffix (empty when the minute is 0, else ':' and the two-digit minute), a
\* space and 'am' before hour 12, 'pm' from hour 12 on; and no other pair
\* of an hour and a minute has the same rendering (compared at the first
\* second of every minute, the sixty seconds of a minute having one pair).
C11_TwelveHourRendering ==
    pc = "rendered" =>
        /\ result = TwelveHourText(HourOf(seconds), MinuteOf(seconds))
        /\ seconds % 60 = 0 =>
               \A p \in DOMAIN Renderings :
                   Renderings[p] = result => p = <<HourOf(seconds), MinuteOf(seconds)>>

\* Noon is rendered as 12 pm.
C11_Witness ==
    /\ pc = "rendered"
    /\ seconds = 43200
    /\ result = <<"1", "2", " ", "p", "m">>

\* C13: for every seconds in 0..86399 seconds_to_hours_and_minutes returns an
\* hour in 0..23 and a minute in 0..59 with hour*60 + minute the whole
\* minutes of seconds: the seconds above the minute are cut off, never
\* rounded up.
C13_HoursAndMinutes ==
    pc \in {"render", "rendered"} =>
        /\ hours_and_minutes[1] \in 0..23
        /\ hours_and_minutes[2] \in 0..59
        /\ LET whole == hours_and_minutes[1] * 60 + hours_and_minutes[2]
           IN  /\ whole * 60 <= seconds
               /\ seconds < whole * 60 + 60

\* The last second of the day is converted to 23:59.
C13_Witness ==
    /\ pc = "render"
    /\ seconds = MaxSeconds
    /\ hours_and_minutes = <<23, 59>>

\* The lines of a string: the characters before each newline.
RECURSIVE LinesOf(_)
LinesOf(str) ==
    IF \A i \in 1..Len(str) : str[i] # "\n" THEN <<>>
    ELSE LET n == CHOOSE i \in 1..Len(str) :
                      str[i] = "\n" /\ \A j \in 1..(i - 1) : str[j] # "\n"
         IN  <<SubSeq(str, 1, n - 1)>> \o LinesOf(SubSeq(str, n + 1, Len(str)))

\* The day names with a capital.
Capitalized ==
    [monday |-> <<"M", "o", "n", "d", "a", "y">>,
     tuesday |-> <<"T", "u", "e", "s", "d", "a", "y">>,
     wednesday |-> <<"W", "e", "d", "n", "e", "s", "d", "a", "y">>,
     thursday |-> <<"T", "h", "u", "r", "s", "d", "a", "y">>,
     friday |-> <<"F", "r", "i", "d", "a", "y">>,
     saturday |-> <<"S", "a", "t", "u", "r", "d", "a", "y">>,
     sunday |-> <<"S", "u", "n", "d", "a", "y">>]

TimeText(t) == TwelveHourText(HourOf(t), MinuteOf(t))

\* The intervals l[j], l[j + 1], ... as '<start> - <end>', with ', ' between.
RECURSIVE IntervalsFrom(_, _)
IntervalsFrom(l, j) ==
    TimeText(l[j][1]) \o <<" ", "-", " ">> \o TimeText(l[j][2])
        \o (IF j < Len(l) THEN <<",", " ">> \o IntervalsFrom(l, j + 1) ELSE <<>>)

LineOfRecord(rec) ==
    Capitalized[rec.day] \o <<":", " ">>
        \o (IF rec.hours.null \/ rec.hours.list = <<>>
            THEN <<"C", "l", "o", "s", "e", "d">>
            ELSE IntervalsFrom(rec.hours.list, 1))

\* C12: for every sequence of day records opening_hours_to_string gives one
\* line per record, each ended by a newline, in the order of the records; a
\* record's line is '<Capitalized day>: Closed' when its hours are null or
\* empty, and else '<Capitalized day>: ' and its intervals '<start> - <end>'
\* in order with ', ' between them.
C12_OneLinePerRecord ==
    pc = "formatted" =>
        /\ Len(LinesOf(result)) = Len(day_data)
        /\ result # <<>> => Last(result) = "\n"
        /\ \A k \in 1..Len(day_data) : LinesOf(result)[k] = LineOfRecord(day_data[k])

\* Two records are formatted, of different days: the first with two
\* intervals, the second with an empty list.
C12_Witness ==
    /\ pc = "formatted"
    /\ Len(day_data) = 2
    /\ day_data[1].day # day_data[2].day
    /\ Len(day_data[1].hours.list) = 2
    /\ ~day_data[2].hours.null /\ day_data[2].hours.list = <<>>
    /\ Len(LinesOf(result)) = 2

----------------------------------------------------------------------------
\* Lists a and b hold the same entries, each as many times in a as in b.
SameEntries(a, b) ==
    /\ Len(a) = Len(b)
    /\ \A e \in Events :
           Cardinality({i \in 1..Len(a) : a[i] = e})
               = Cardinality({i \in 1..Len(b) : b[i] = e})

\* C14: once the lists are sorted and until the call returns or fails, while
\* intervals of a previous day are rewritten and the Sunday close is kept,
\* the input mapping has the keys the caller gave it, and each day's list
\* holds the caller's entries of that day, none added, removed or altered,
\* ascending by value.
C14_InputFrame ==
    pc \in {"days", "items", "check", "returned", "raised"} =>
        /\ hours_data.keys = orig_data.keys
        /\ \A d \in Days :
               /\ SameEntries(hours_data.at[d], orig_data.at[d])
               /\ Ascends(hours_data.at[d])

\* The call returned for an input with a day whose entries the caller gave
\* in descending order.
C14_Witness ==
    /\ Returned
    /\ \E d \in Days : ~Ascends(orig_data.at[d]) /\ hours_data.at[d] # orig_data.at[d]

----------------------------------------------------------------------------
\* C15: the message of every error parse_opening_hours raises shows the
\* weekday the error is about as its day, and the value of the entry the
\* error is about.
C15_ErrorNamesDayAndValue ==
    Raised => error.day \in Days /\ error.value \in Values

----------------------------------------------------------------------------
\* Day d has at most one close before its first open.
OnlyLeadingClose(d) == Len(InputOf(d)) < 2 \/ InputOf(d)[2].type = "open"

\* Day i ends with an unclosed open, the next weekday begins with a close
\* that no second close follows, and the call is over with no error other
\* than that open of day i lingering.
ClosesInNextDay(i) ==
    /\ Finished
    /\ EndsWithOpen(DAY_NAMES[i])
    /\ BeginsWithClose(DAY_NAMES[i + 1])
    /\ OnlyLeadingClose(DAY_NAMES[i + 1])
    /\ Raised => error.kind = "lingering_open" /\ error.day = DAY_NAMES[i]

\* The claim as it was stated: the last interval of D is (s, c).
C16_Original ==
    \A i \in 1..6 :
        ClosesInNextDay(i) =>
            /\ Returned
            /\ HoursTruthy(all_days[i].hours)
            /\ Last(ListOf(i)) = <<Last(InputOf(DAY_NAMES[i])).value,
                                   InputOf(DAY_NAMES[i + 1])[1].value>>
            /\ Len(InputOf(DAY_NAMES[i + 1])) = 1 => all_days[i + 1].hours.null

\* The entry about to be handled is the close that begins a day after Monday
\* while the record of the day before ends with an interval without an end.
AtNextDayClose ==
    /\ AtItem
    /\ day_index > 1
    /\ item_index = 1
    /\ CurrentItem.type = "close"
    /\ HoursTruthy(Last(all_days).hours)
    /\ Last(Last(all_days).hours.list)[2] = None

\* C16: for every day D of Monday..Saturday whose sorted events end with an
\* unclosed open at s while the next weekday's begin with a close at c (c = 0
\* too): handling that close raises no error, gives the last interval of D
\* the end c and changes nothing else: not its start, not the other intervals
\* of D, not the other records, not the next day's own intervals; and when no
\* other error is raised the call returns with D's last interval (s', c),
\* where s' is s, or, when D has a close at s, an open value of D not after s
\* (the open at s is merged into the interval that ends at s); a next day
\* that holds only the close has a null record.
C16_ClosesInNextDay ==
    /\ [](\A i \in 1..6 :
            ClosesInNextDay(i) =>
                /\ Returned
                /\ HoursTruthy(all_days[i].hours)
                /\ Last(ListOf(i))[2] = InputOf(DAY_NAMES[i + 1])[1].value
                /\ Last(ListOf(i))[1] \in ValuesOf(DAY_NAMES[i], "open")
                /\ Last(ListOf(i))[1] <= Last(InputOf(DAY_NAMES[i])).value
                /\ Last(InputOf(DAY_NAMES[i])).value \notin ValuesOf(DAY_NAMES[i], "close")
                       => Last(ListOf(i))[1] = Last(InputOf(DAY_NAMES[i])).value
                /\ Len(InputOf(DAY_NAMES[i + 1])) = 1 => all_days[i + 1].hours.null)
    /\ [][AtNextDayClose =>
            /\ pc' = "items"
            /\ hours' = <<>> /\ current_start' = None
            /\ Len(all_days') = Len(all_days)
            /\ \A k \in 1..(Len(all_days) - 1) : all_days'[k] = all_days[k]
            /\ Last(all_days').day = Last(all_days).day
            /\ ~Last(all_days').hours.null
            /\ Len(Last(all_days').hours.list) = Len(Last(all_days).hours.list)
            /\ Front(Last(all_days').hours.list) = Front(Last(all_days).hours.list)
            /\ Last(Last(all_days').hours.list)
                   = <<Last(Last(all_days).hours.list)[1], CurrentItem.value>>]_vars

\* The call returned for a day before Sunday that ends with an open merged
\* into the interval before it, closed at 0 by the next weekday.
C16_Witness ==
    /\ Returned
    /\ \E i \in 1..6 :
           /\ ClosesInNextDay(i)
           /\ InputOf(DAY_NAMES[i + 1])[1].value = 0
           /\ Last(ListOf(i))[2] = 0
           /\ Last(ListOf(i))[1] < Last(InputOf(DAY_NAMES[i])).value

----------------------------------------------------------------------------
\* Locals r and q differ in nothing but the Sunday close.
SameButSundayClose(r, q) ==
    /\ r.hours = q.hours
    /\ r.current_start = q.current_start
    /\ r.all_days = q.all_days
    /\ r.error = q.error

\* The step about to be taken does not read the Sunday close: it leaves the
\* other locals as it would with no close kept.
SundayCloseNotRead ==
    /\ AtItem =>
           SameButSundayClose(
               HandleItem(CurrentItem, DAY_NAMES[day_index], hours, current_start,
                          all_days, sunday_close),
               HandleItem(CurrentItem, DAY_NAMES[day_index], hours, current_start,
                          all_days, None))
    /\ (pc = "items" /\ ~AtItem /\ DAY_NAMES[day_index] # "sunday") =>
           SameButSundayClose(
               FinishDay(DAY_NAMES[day_index], hours, current_start, all_days,
                         sunday_close),
               FinishDay(DAY_NAMES[day_index], hours, current_start, all_days, None))

\* C17: the Sunday close is None until Monday's entries are handled; only the
\* handling of an entry of Monday changes it, so the days Tuesday to Sunday
\* leave it as Monday left it; and no step reads it but the one that
\* follows the last entry of Sunday.
C17_SundayCloseOrdering ==
    /\ []((day_index = 1 /\ (pc \in {"sort", "days"} \/ (pc = "items" /\ item_index = 1)))
            => sunday_close = None)
    /\ [][sunday_close' # sunday_close => (AtItem /\ DAY_NAMES[day_index] = "monday")]_vars
    /\ [][day_index > 1 => sunday_close' = sunday_close]_vars
    /\ []SundayCloseNotRead

\* Sunday's entries have all been handled, an open of Sunday is pending and
\* the close kept on Monday is there to end it.
C17_Witness ==
    /\ pc = "items"
    /\ DAY_NAMES[day_index] = "sunday"
    /\ ~AtItem
    /\ current_start # None
    /\ sunday_close # None
    /\ BeginsWithClose("monday")
    /\ sunday_close = InputOf("monday")[1].value

----------------------------------------------------------------------------
\* The lists with the entries of l in every order.
Reordered(l) ==
    {[j \in 1..Len(l) |-> l[p[j]]] :
        p \in {f \in [1..Len(l) -> 1..Len(l)] : \A a, b \in 1..Len(l) : f[a] = f[b] => a = b}}

\* The dictionaries with the keys of data and the entries of each day in
\* every order.
RECURSIVE ReorderedFrom(_, _)
ReorderedFrom(data, i) ==
    IF i > Len(DAY_NAMES) THEN {<<>>}
    ELSE {<<l>> \o rest : l \in Reordered(data.at[DAY_NAMES[i]]),
                          rest \in ReorderedFrom(data, i + 1)}

Reorderings(data) ==
    {Dict(data.keys, [d \in Days |-> lists[CHOOSE i \in 1..Len(DAY_NAMES) : DAY_NAMES[i] = d]]) :
        lists \in ReorderedFrom(data, 1)}

\* The entries of one value come in the same order in a as in b.
TiesKept(a, b) ==
    \A v \in Values :
        SelectSeq(a, LAMBDA e : e.value = v) = SelectSeq(b, LAMBDA e : e.value = v)

\* The outcome of the call that is over.
Outcome == [all_days |-> IF Returned THEN all_days ELSE <<>>, error |-> error]

\* The same seven records, or a failure in both.
SameOutcome(x, y) ==
    /\ (x.error = NoError) = (y.error = NoError)
    /\ x.all_days = y.all_days

\* The claim as it was stated: any order of the same events, those of equal
\* value too, has the same outcome.
C18_Original ==
    Finished =>
        \A q \in Reorderings(orig_data) : SameOutcome(parse_opening_hours(q), Outcome)

\* C18: two inputs whose days hold the same events in a different order, the
\* events of equal value in the same order in both, have the same outcome:
\* the same seven records, or a failure in both, with the same error.
C18_OrderIndependence ==
    Finished =>
        \A q \in Reorderings(orig_data) :
            (\A d \in Days : TiesKept(q.at[d], orig_data.at[d]))
                => parse_opening_hours(q) = Outcome

\* The call returned for an input with two events of equal value on a day
\* that has another order with these two in the same order.
C18_Witness ==
    /\ Returned
    /\ \E d \in Days :
           \E a, b \in 1..Len(orig_data.at[d]) :
               a # b /\ orig_data.at[d][a].value = orig_data.at[d][b].value
    /\ \E q \in Reorderings(orig_data) :
           q # orig_data /\ \A d \in Days : TiesKept(q.at[d], orig_data.at[d])

----------------------------------------------------------------------------
\* The number of open events of day d in the caller's input.
OpensOf(d) ==
    Cardinality({j \in 1..Len(orig_data.at[d]) : orig_data.at[d][j].type = "open"})

\* C19: in every result the start of every interval of a day is the value of
\* an open event of that day in the input, its end is the value of a close
\* event of that day or of the weekday after it (Monday after Sunday), and
\* the day has no more intervals than it has open events.
C19_Provenance ==
    Returned =>
        \A i \in 1..Len(all_days) :
            /\ Len(ListOf(i)) <= OpensOf(DAY_NAMES[i])
            /\ \A k \in 1..Len(ListOf(i)) :
                   /\ ListOf(i)[k][1] \in ValuesOf(DAY_NAMES[i], "open")
                   /\ ListOf(i)[k][2] \in ValuesOf(DAY_NAMES[i], "close")
                          \cup ValuesOf(DAY_NAMES[NextIndex(i)], "close")

\* A result in which one day has an interval closed within the day and an
\* interval closed by the next weekday.
C19_Witness ==
    /\ Returned
    /\ \E i \in 1..Len(all_days) :
           /\ Len(ListOf(i)) = 2
           /\ ListOf(i)[1][2] \in ValuesOf(DAY_NAMES[i], "close")
           /\ ListOf(i)[2][2] \in ValuesOf(DAY_NAMES[NextIndex(i)], "close")
           /\ ListOf(i)[2][2] \notin ValuesOf(DAY_NAMES[i], "close")

====
